---- MODULE Spec2Model ----
(***************************************************************************)
(* ColorPickerInput (registry/new-york/ui/color-picker-input.tsx): the     *)
(* confirmed color, the input buffer and the recent-color list of one      *)
(* mounted component instance, together with the localStorage entry        *)
(* "color-picker-recent" and the onChange notifications it emits.          *)
(*                                                                         *)
(* Strings are sequences of one-character strings, so that the regular     *)
(* expressions, toUpperCase/toLowerCase, JSON.stringify and JSON.parse of  *)
(* the source are computed character by character.                         *)
(***************************************************************************)
EXTENDS Integers, Sequences, FiniteSets, TLC

\* ------------------------------------------------------------------ bounds

\* maxRecentColors is drawn from 0..MaxRecentBound.
MaxRecentBound == 3

\* At most MaxEmitted onChange notifications are followed in one behaviour.
MaxEmitted == 3

\* ------------------------------------------------------------- characters

LowerLetters == << "a", "b", "c", "d", "e", "f", "g", "h", "i", "j", "k", "l", "m",
                   "n", "o", "p", "q", "r", "s", "t", "u", "v", "w", "x", "y", "z" >>

UpperLetters == << "A", "B", "C", "D", "E", "F", "G", "H", "I", "J", "K", "L", "M",
                   "N", "O", "P", "Q", "R", "S", "T", "U", "V", "W", "X", "Y", "Z" >>

Digits == { "0", "1", "2", "3", "4", "5", "6", "7", "8", "9" }

\* The character class [0-9A-F] under the i flag (also [a-f\d] under i).
HexDigits == Digits \cup { "a", "b", "c", "d", "e", "f", "A", "B", "C", "D", "E", "F" }

toUpperCaseChar(c) ==
  IF \E i \in 1..26 : LowerLetters[i] = c
  THEN UpperLetters[CHOOSE i \in 1..26 : LowerLetters[i] = c]
  ELSE c

toLowerCaseChar(c) ==
  IF \E i \in 1..26 : UpperLetters[i] = c
  THEN LowerLetters[CHOOSE i \in 1..26 : UpperLetters[i] = c]
  ELSE c

RECURSIVE toUpperCase(_)
toUpperCase(s) ==
  IF s = << >> THEN << >> ELSE << toUpperCaseChar(Head(s)) >> \o toUpperCase(Tail(s))

RECURSIVE toLowerCase(_)
toLowerCase(s) ==
  IF s = << >> THEN << >> ELSE << toLowerCaseChar(Head(s)) >> \o toLowerCase(Tail(s))

\* ------------------------------------------------------- color utilities

\* /^#[0-9A-F]{6}$/i.test(color)
isValidHex(color) ==
  /\ Len(color) = 7
  /\ color[1] = "#"
  /\ \A i \in 2..7 : color[i] \in HexDigits

\* Array.prototype.slice(0, end): a negative end counts from the end of the array.
slice(s, end) ==
  LET n == Len(s)
      k == IF end < 0
           THEN (IF n + end < 0 THEN 0 ELSE n + end)
           ELSE (IF end > n THEN n ELSE end)
  IN  SubSeq(s, 1, k)

\* prev.filter((c) => c.toLowerCase() !== color.toLowerCase())
filtered(prev, color) ==
  SelectSeq(prev, LAMBDA c : toLowerCase(c) # toLowerCase(color))

\* A variant of the updater that keeps the entries equal to the new color.
updatedNoFilter(prev, color, max) == slice(<< color >> \o prev, max)

\* A variant of the updater that never truncates.
updatedNoSlice(prev, color, max) == << color >> \o filtered(prev, color)

\* [color, ...filtered].slice(0, maxRecentColors)
updated(prev, color, max) == slice(<< color >> \o filtered(prev, color), max)

\* ------------------------------------------------------- color conversion

HexAlphabet == << "0", "1", "2", "3", "4", "5", "6", "7", "8", "9",
                  "a", "b", "c", "d", "e", "f" >>

\* The value of one hexadecimal digit, in either case.
HexDigitValue(c) == (CHOOSE i \in 1..16 : HexAlphabet[i] = toLowerCaseChar(c)) - 1

\* parseInt(pair, 16) on two hexadecimal digits.
parseInt16(pair) == 16 * HexDigitValue(pair[1]) + HexDigitValue(pair[2])

\* A variant of the pattern that demands the leading '#'.
hexToRgbHashOnly(hex) ==
  IF isValidHex(hex)
  THEN [ok |-> TRUE, r |-> parseInt16(SubSeq(hex, 2, 3)),
        g |-> parseInt16(SubSeq(hex, 4, 5)), b |-> parseInt16(SubSeq(hex, 6, 7))]
  ELSE [ok |-> FALSE, r |-> 0, g |-> 0, b |-> 0]

\* A variant that reads the channels in the order r, b, g.
hexToRgbSwapped(hex) ==
  LET body == IF hex # << >> /\ hex[1] = "#" THEN Tail(hex) ELSE hex
  IN  IF Len(body) = 6 /\ \A i \in 1..6 : body[i] \in HexDigits
      THEN [ok |-> TRUE, r |-> parseInt16(SubSeq(body, 1, 2)),
            g |-> parseInt16(SubSeq(body, 5, 6)), b |-> parseInt16(SubSeq(body, 3, 4))]
      ELSE [ok |-> FALSE, r |-> 0, g |-> 0, b |-> 0]

\* /^#?([a-f\d]{2})([a-f\d]{2})([a-f\d]{2})$/i.exec(hex): ok is FALSE for null.
hexToRgb(hex) ==
  LET body == IF hex # << >> /\ hex[1] = "#" THEN Tail(hex) ELSE hex
  IN  IF Len(body) = 6 /\ \A i \in 1..6 : body[i] \in HexDigits
      THEN [ok |-> TRUE, r |-> parseInt16(SubSeq(body, 1, 2)),
            g |-> parseInt16(SubSeq(body, 3, 4)), b |-> parseInt16(SubSeq(body, 5, 6))]
      ELSE [ok |-> FALSE, r |-> 0, g |-> 0, b |-> 0]

\* x.toString(16), padded to two digits.
toString16(x) == << HexAlphabet[(x \div 16) + 1], HexAlphabet[(x % 16) + 1] >>

rgbToHex(r, g, b) == << "#" >> \o toString16(r) \o toString16(g) \o toString16(b)

\* Math.round(num / den) for num >= 0 and den > 0, computed on the exact
\* quotient.  The source divides doubles, whose quotient differs from the exact
\* one by rounding errors that decide the result only where the exact quotient
\* lies half way between two integers: there up says which of the two comes out.
round(num, den, up) ==
  IF (2 * num) % (2 * den) = den
  THEN (IF up THEN (num \div den) + 1 ELSE num \div den)
  ELSE (2 * num + den) \div (2 * den)

Max3(a, b, c) == IF a >= b /\ a >= c THEN a ELSE IF b >= c THEN b ELSE c
Min3(a, b, c) == IF a <= b /\ a <= c THEN a ELSE IF b <= c THEN b ELSE c

\* The hue in degrees before rounding, as a fraction num/den: 360 * h with
\* h = ((g - b) / d + (g < b ? 6 : 0)) / 6 and its two siblings, the case
\* chosen by which channel equals max, r first.
HueNum(r, g, b) ==
  LET mx == Max3(r, g, b)
      d == mx - Min3(r, g, b)
  IN  IF mx = r THEN 60 * (g - b) + (IF g < b THEN 360 * d ELSE 0)
      ELSE IF mx = g THEN 60 * (b - r) + 120 * d
      ELSE 60 * (r - g) + 240 * d

\* A variant that cuts the lightness off to a whole percent instead of rounding it.
hexToHslTruncating(hex, hUp, sUp) ==
  LET rgb == hexToRgb(hex)
      mx == Max3(rgb.r, rgb.g, rgb.b)
      mn == Min3(rgb.r, rgb.g, rgb.b)
  IN  IF ~rgb.ok THEN [ok |-> FALSE, h |-> 0, s |-> 0, l |-> 0]
      ELSE IF mx = mn
           THEN [ok |-> TRUE, h |-> 0, s |-> 0, l |-> (100 * (mx + mn)) \div 510]
      ELSE [ok |-> TRUE,
            h |-> round(HueNum(rgb.r, rgb.g, rgb.b), mx - mn, hUp),
            s |-> round(100 * (mx - mn),
                        IF mx + mn > 255 THEN 510 - mx - mn ELSE mx + mn, sUp),
            l |-> (100 * (mx + mn)) \div 510]

\* hexToHsl: channels r/255, g/255, b/255; l = (max + min) / 2;
\* s = l > 0.5 ? d / (2 - max - min) : d / (max + min); h, s, l rounded to
\* degrees and percents.  hUp and sUp decide the rounding of h and of s where
\* the exact value lies half way (l never does).
hexToHsl(hex, hUp, sUp) ==
  LET rgb == hexToRgb(hex)
      mx == Max3(rgb.r, rgb.g, rgb.b)
      mn == Min3(rgb.r, rgb.g, rgb.b)
  IN  IF ~rgb.ok THEN [ok |-> FALSE, h |-> 0, s |-> 0, l |-> 0]
      ELSE IF mx = mn
           THEN [ok |-> TRUE, h |-> 0, s |-> 0, l |-> round(100 * (mx + mn), 510, FALSE)]
      ELSE [ok |-> TRUE,
            h |-> round(HueNum(rgb.r, rgb.g, rgb.b), mx - mn, hUp),
            s |-> round(100 * (mx - mn),
                        IF mx + mn > 255 THEN 510 - mx - mn ELSE mx + mn, sUp),
            l |-> round(100 * (mx + mn), 510, FALSE)]

DecimalDigits == << "0", "1", "2", "3", "4", "5", "6", "7", "8", "9" >>

\* The decimal text of a natural number, as a template literal writes it.
RECURSIVE NumberToString(_)
NumberToString(n) ==
  IF n < 10 THEN << DecimalDigits[n + 1] >>
  ELSE NumberToString(n \div 10) \o << DecimalDigits[(n % 10) + 1] >>

\* A variant that substitutes a default for a color that fails validation.
getFormattedColorDefaulting(color, format, hUp, sUp) ==
  LET c == IF isValidHex(color) THEN color ELSE << "#", "0", "0", "0", "0", "0", "0" >>
      rgb == hexToRgb(c)
  IN  IF format = "rgb"
      THEN << "r", "g", "b", "(" >> \o NumberToString(rgb.r) \o << ",", " " >>
           \o NumberToString(rgb.g) \o << ",", " " >> \o NumberToString(rgb.b) \o << ")" >>
      ELSE c

\* getFormattedColor() on currentColor = color and the format prop.
getFormattedColor(color, format, hUp, sUp) ==
  IF ~isValidHex(color) THEN color
  ELSE IF format = "rgb"
       THEN LET rgb == hexToRgb(color)
            IN  IF rgb.ok
                THEN << "r", "g", "b", "(" >> \o NumberToString(rgb.r) \o << ",", " " >>
                     \o NumberToString(rgb.g) \o << ",", " " >>
                     \o NumberToString(rgb.b) \o << ")" >>
                ELSE color
  ELSE IF format = "hsl"
       THEN LET hsl == hexToHsl(color, hUp, sUp)
            IN  IF hsl.ok
                THEN << "h", "s", "l", "(" >> \o NumberToString(hsl.h) \o << ",", " " >>
                     \o NumberToString(hsl.s) \o << "%", ",", " " >>
                     \o NumberToString(hsl.l) \o << "%", ")" >>
                ELSE color
  ELSE color

\* ------------------------------------------------------------------ JSON

\* The string literal of s: quotes and backslashes are escaped.
RECURSIVE Quote(_)
Quote(s) ==
  IF s = << >> THEN << >>
  ELSE (IF Head(s) \in { "\"", "\\" } THEN << "\\", Head(s) >> ELSE << Head(s) >>)
       \o Quote(Tail(s))

RECURSIVE JoinQuoted(_)
JoinQuoted(list) ==
  IF list = << >> THEN << >>
  ELSE << "\"" >> \o Quote(Head(list)) \o << "\"" >>
       \o (IF Tail(list) = << >> THEN << >> ELSE << "," >> \o JoinQuoted(Tail(list)))

\* A variant that serializes only the newest entry.
JSONstringifyHeadOnly(list) ==
  << "[" >> \o JoinQuoted(slice(list, 1)) \o << "]" >>

\* JSON.stringify of an array of strings.
JSONstringify(list) == << "[" >> \o JoinQuoted(list) \o << "]" >>

\* The values JSON.parse can hand to setRecentColors.  kind "array" is an array
\* whose items are all strings (items holds them); "arrayOfOther" is an array
\* with at least one item that is not a string; str is the text of a string.
JValue(kind, items, str) == [kind |-> kind, items |-> items, str |-> str]
JArray(items) == JValue("array", items, << >>)

ParseFail == [ok |-> FALSE, val |-> JValue("null", << >>, << >>), next |-> 0]
ParseOk(val, next) == [ok |-> TRUE, val |-> val, next |-> next]

Matches(t, i, word) ==
  /\ i + Len(word) - 1 <= Len(t)
  /\ SubSeq(t, i, i + Len(word) - 1) = word

\* The characters of a string literal from position j on, up to its closing quote.
RECURSIVE ScanString(_, _, _)
ScanString(t, j, acc) ==
  IF j > Len(t) THEN ParseFail
  ELSE IF t[j] = "\"" THEN ParseOk(JValue("string", << >>, acc), j + 1)
  ELSE IF t[j] = "\\"
       THEN IF j + 1 <= Len(t) /\ t[j + 1] \in { "\"", "\\", "/" }
            THEN ScanString(t, j + 2, Append(acc, t[j + 1]))
            ELSE ParseFail
  ELSE ScanString(t, j + 1, Append(acc, t[j]))

RECURSIVE ScanDigits(_, _)
ScanDigits(t, j) == IF j <= Len(t) /\ t[j] \in Digits THEN ScanDigits(t, j + 1) ELSE j

\* A value that is not an array, starting at position i.
ParseScalar(t, i) ==
  IF i > Len(t) THEN ParseFail
  ELSE IF t[i] = "\"" THEN ScanString(t, i + 1, << >>)
  ELSE IF Matches(t, i, << "n", "u", "l", "l" >>)
       THEN ParseOk(JValue("null", << >>, << >>), i + 4)
  ELSE IF Matches(t, i, << "t", "r", "u", "e" >>)
       THEN ParseOk(JValue("boolean", << >>, << >>), i + 4)
  ELSE IF Matches(t, i, << "f", "a", "l", "s", "e" >>)
       THEN ParseOk(JValue("boolean", << >>, << >>), i + 5)
  ELSE IF Matches(t, i, << "{", "}" >>)
       THEN ParseOk(JValue("object", << >>, << >>), i + 2)
  ELSE IF t[i] \in Digits /\ (t[i] # "0" \/ ScanDigits(t, i) = i + 1)
       THEN ParseOk(JValue("number", << >>, << >>), ScanDigits(t, i))
  ELSE ParseFail

\* The items of an array from position i on (just after "[" or ","); allStrings
\* tells whether every item so far was a string.
RECURSIVE ScanItems(_, _, _, _)
ScanItems(t, i, acc, allStrings) ==
  LET item == ParseScalar(t, i)
      strs == allStrings /\ item.val.kind = "string"
      acc2 == IF strs THEN Append(acc, item.val.str) ELSE << >>
      done == IF strs THEN JArray(acc2) ELSE JValue("arrayOfOther", << >>, << >>)
  IN  IF ~item.ok \/ item.next > Len(t) THEN ParseFail
      ELSE IF t[item.next] = "]" THEN ParseOk(done, item.next + 1)
      ELSE IF t[item.next] = "," THEN ScanItems(t, item.next + 1, acc2, strs)
      ELSE ParseFail

ParseValue(t) ==
  IF Matches(t, 1, << "[", "]" >>) THEN ParseOk(JArray(<< >>), 3)
  ELSE IF Len(t) >= 1 /\ t[1] = "[" THEN ScanItems(t, 2, << >>, TRUE)
  ELSE ParseScalar(t, 1)

\* JSON.parse(text) on the grammar without white space, nested containers,
\* fractions and \u escapes: ok is FALSE where JSON.parse throws a SyntaxError.
JSONparse(text) ==
  LET r == ParseValue(text)
  IN  IF r.ok /\ r.next = Len(text) + 1 THEN [ok |-> TRUE, val |-> r.val]
      ELSE [ok |-> FALSE, val |-> JValue("null", << >>, << >>)]

\* --------------------------------------------------------------- strings

\* value = "#3B82F6", the default of the value prop.
DefaultValue == << "#", "3", "B", "8", "2", "F", "6" >>

\* What the user can type into the text input.
TypedTexts == { << "#", "3", "b", "8", "2", "f" >>,
                << "#", "3", "b", "8", "2", "f", "6" >>,
                << "#", "F", "F", "5", "7", "3", "3" >>,
                << "r", "e", "d" >> }

\* What <input type="color"> reports: a lower-case #rrggbb.
NativeValues == { << "#", "3", "b", "8", "2", "f", "6" >> }

\* The presetColors prop is supplied by the caller and not validated.
PresetChoices == { << << "#", "0", "0", "0", "0", "0", "0" >>, << "#", "f", "f", "5", "7", "3", "3" >>, << "r", "e", "d" >> >>,
                   << << "#", "F", "F", "F" >>, << "#", "G", "G", "H", "H", "I", "I" >>, << >> >> }

\* A list of three colors, as an earlier session with maxRecentColors >= 3 leaves it.
EarlierList ==
  << "[", "\"", "#", "F", "F", "5", "7", "3", "3", "\"", ",", "\"", "#", "0", "0", "0", "0", "0", "0", "\"", ",",
     "\"", "#", "3", "B", "8", "2", "F", "6", "\"", "]" >>

\* What may be stored under "color-picker-recent" when the component mounts.
StoredTexts == { << >>,
                 << "{", "\"", "a" >>,
                 << "n", "u", "l", "l" >>,
                 << "5" >>,
                 << "\"", "a", "b", "c", "\"" >>,
                 << "{", "}" >>,
                 << "[", "]" >>,
                 << "[", "5", "]" >>,
                 << "[", "\"", "r", "e", "d", "\"", "]" >>,
                 << "[", "\"", "#", "3", "b", "8", "2", "f", "6", "\"", ",", "\"", "#", "3", "B", "8", "2", "F", "6", "\"", "]" >>,
                 EarlierList }

\* ----------------------------------------------------------------- state

VARIABLES
  phase,            \* "created" before the mount effects, "mounted", or "crashed"
  disabled,         \* prop
  maxRecentColors,  \* prop
  showRecentColors, \* prop
  presetColors,     \* prop
  currentColor,     \* useState(value): the confirmed color
  inputValue,       \* useState(value): the text input's buffer
  recentColors,     \* useState([]): what setRecentColors was last given
  storage,          \* localStorage under "color-picker-recent"
  storageAccess,    \* "ok", "quota" (setItem throws) or "denied" (every access throws)
  emitted,          \* the arguments of the onChange calls so far
  lastEvent,        \* the handler that ran last, and its argument
  format,           \* prop
  convCase,         \* how the color under conversion was written: shape and channels
  rgbOut,           \* what hexToRgb(currentColor) returned
  hslOut,           \* what hexToHsl(currentColor) returned
  formatted,        \* what getFormattedColor() returned
  copied,           \* useState(false): the copy acknowledgment
  pendingWrites,    \* the texts of the clipboard writes not settled yet
  clipboardText,    \* what the clipboard holds
  timers,           \* the remaining delays of the pending setTimeout callbacks
  copies,           \* the copy requests so far
  value,            \* prop: the color the parent controls the picker with
  twinPhase,        \* a second picker on the same page: its position
  twinCurrentColor, \* its currentColor
  twinInputValue,   \* its inputValue
  twinRecentColors, \* its recentColors
  twinEmitted,      \* the arguments of its onChange calls
  searchProps,      \* SearchInput: how its parent uses it, and its props
  searchPhase,      \* SearchInput: its position
  parentState,      \* the parent of SearchInput: value, loading, recentSearches, timers
  search,           \* SearchInput: internalValue, showRecent, debouncedValue, timer
  called,           \* the callbacks SearchInput invoked during the last step
  typed             \* the user's actions on the search demo so far

props == << disabled, maxRecentColors, showRecentColors, presetColors, storageAccess >>

convVars == << format, convCase, rgbOut, hslOut, formatted >>

copyVars == << copied, pendingWrites, clipboardText, timers, copies >>

\* What only the specifications of their own features change.
twinVars == << twinPhase, twinCurrentColor, twinInputValue, twinRecentColors, twinEmitted >>

searchVars == << searchProps, searchPhase, parentState, search, called, typed >>

restVars == << value, twinVars, searchVars >>

pickerVars == << phase, disabled, maxRecentColors, showRecentColors, presetColors,
                 currentColor, inputValue, recentColors, storage, storageAccess,
                 emitted, lastEvent >>

vars == << phase, disabled, maxRecentColors, showRecentColors, presetColors,
           currentColor, inputValue, recentColors, storage, storageAccess,
           emitted, lastEvent, convVars, copyVars, restVars >>

\* No conversion asked for yet; format = "hex" is the default of the prop.
NotConverted == [done |-> FALSE, ok |-> FALSE, r |-> 0, g |-> 0, b |-> 0]
NotConvertedHsl == [done |-> FALSE, ok |-> FALSE, h |-> 0, s |-> 0, l |-> 0]
NotFormatted == [done |-> FALSE, text |-> << >>]
NoCase == [shape |-> "default", r |-> 59, g |-> 130, b |-> 246]

ConvIdle ==
  /\ format = "hex"
  /\ convCase = NoCase
  /\ rgbOut = NotConverted
  /\ hslOut = NotConvertedHsl
  /\ formatted = NotFormatted

\* useState(false), nothing written to the clipboard, no timer pending.
CopyIdle ==
  /\ copied = FALSE
  /\ pendingWrites = << >>
  /\ clipboardText = << >>
  /\ timers = << >>
  /\ copies = 0

\* No second picker is rendered.
TwinIdle ==
  /\ twinPhase = "absent"
  /\ twinCurrentColor = DefaultValue
  /\ twinInputValue = DefaultValue
  /\ twinRecentColors = JArray(<< >>)
  /\ twinEmitted = << >>

\* No SearchInput is rendered.
SearchIdle ==
  /\ searchProps = [controlled |-> FALSE, echo |-> FALSE, stableOnSearch |-> TRUE,
                    demo |-> FALSE, showRecentSearches |-> FALSE,
                    maxRecentSearches |-> 5, disabled |-> FALSE]
  /\ searchPhase = "absent"
  /\ parentState = [value |-> "", loading |-> FALSE, recentSearches |-> << >>,
                    simTimers |-> { }]
  /\ search = [internalValue |-> "", showRecent |-> FALSE, debouncedValue |-> "",
               timer |-> -1, heldFor |-> 0, typedTexts |-> { }]
  /\ called = [onSearch |-> << >>, onChange |-> << >>, onRecentSearchClick |-> << >>]
  /\ typed = 0

\* value = "#3B82F6", the default of the prop, and it stays as it is.
RestIdle ==
  /\ value = DefaultValue
  /\ TwinIdle
  /\ SearchIdle

Absent == [present |-> FALSE, text |-> << >>]
Stored(text) == [present |-> TRUE, text |-> text]

Event(op, arg) == [op |-> op, arg |-> arg]

\* The component's state as one value, for the handlers to transform.
Cur == [currentColor |-> currentColor, inputValue |-> inputValue,
        recentColors |-> recentColors, storage |-> storage,
        emitted |-> emitted, crashed |-> FALSE]

Init ==
  /\ phase = "created"
  /\ disabled \in BOOLEAN
  /\ maxRecentColors \in 0..MaxRecentBound
  /\ showRecentColors \in BOOLEAN
  /\ presetColors \in PresetChoices
  /\ currentColor = DefaultValue
  /\ inputValue = DefaultValue
  /\ recentColors = JArray(<< >>)
  /\ storageAccess \in { "ok", "quota", "denied" }
  /\ storage \in { Absent } \cup { Stored(t) : t \in StoredTexts }
  /\ storageAccess = "denied" => storage = Absent
  /\ storageAccess = "quota" => storage \in { Absent, Stored(EarlierList) }
  /\ emitted = << >>
  /\ lastEvent = Event("none", << >>)
  /\ ConvIdle
  /\ CopyIdle
  /\ RestIdle

\* ---------------------------------------------------------------- render

\* The "Recent Colors" block of the render: recentColors.length > 0 &&
\* recentColors.map(... color.toLowerCase() ...) throws a TypeError on null, on
\* a non-empty string (no map) and on an array item that is not a string.
RenderThrows(rc) ==
  /\ showRecentColors
  /\ \/ rc.kind = "null"
     \/ rc.kind = "string" /\ rc.str # << >>
     \/ rc.kind = "arrayOfOther"

\* prev.filter(...) in the updater throws on anything but an array of strings.
UpdaterThrows(rc) == rc.kind # "array"

\* ------------------------------------------------------------- operations

\* A variant whose failure escapes the updater.
setItemUncaught(st, text) ==
  IF storageAccess = "ok" THEN [st EXCEPT !.storage = Stored(text)]
  ELSE [st EXCEPT !.crashed = TRUE]

\* localStorage.setItem inside try/catch: a failure leaves the entry as it was.
setItem(st, text) ==
  IF storageAccess = "ok" THEN [st EXCEPT !.storage = Stored(text)] ELSE st

\* A variant that records without the validity check.
updateRecentColorsUnchecked(st, color) ==
  IF UpdaterThrows(st.recentColors) THEN [st EXCEPT !.crashed = TRUE]
  ELSE LET list == updated(st.recentColors.items, color, maxRecentColors)
       IN  setItem([st EXCEPT !.recentColors = JArray(list)], JSONstringify(list))

updateRecentColors(st, color) ==
  IF ~isValidHex(color) THEN st
  ELSE IF UpdaterThrows(st.recentColors) THEN [st EXCEPT !.crashed = TRUE]
  ELSE LET list == updated(st.recentColors.items, color, maxRecentColors)
       IN  setItem([st EXCEPT !.recentColors = JArray(list)], JSONstringify(list))

\* A variant without the early return for a disabled picker.
handleColorChangeUnguarded(st, newColor) ==
  updateRecentColors(
    [st EXCEPT !.currentColor = newColor,
               !.inputValue = newColor,
               !.emitted = Append(st.emitted, newColor)],
    newColor)

handleColorChange(st, newColor) ==
  IF disabled THEN st
  ELSE updateRecentColors(
         [st EXCEPT !.currentColor = newColor,
                    !.inputValue = newColor,
                    !.emitted = Append(st.emitted, newColor)],
         newColor)

handleNativePickerChange(st, v) == handleColorChange(st, toUpperCase(v))

\* A variant that confirms the text as typed.
handleInputChangeAsTyped(st, v) ==
  LET st1 == [st EXCEPT !.inputValue = v]
  IN  IF isValidHex(v) THEN handleColorChange(st1, v) ELSE st1

handleInputChange(st, v) ==
  LET st1 == [st EXCEPT !.inputValue = v]
  IN  IF isValidHex(v) THEN handleColorChange(st1, toUpperCase(v)) ELSE st1

handlePresetClick(st, color) ==
  IF disabled THEN st ELSE handleColorChange(st, color)

\* A variant of the load whose failures escape.
loadRecentColorsUncaught(st) ==
  IF storageAccess = "denied" THEN [st EXCEPT !.crashed = TRUE]
  ELSE IF ~st.storage.present \/ st.storage.text = << >> THEN st
  ELSE LET parsed == JSONparse(st.storage.text)
       IN  IF ~parsed.ok THEN [st EXCEPT !.crashed = TRUE]
           ELSE [st EXCEPT !.recentColors = parsed.val]

\* The load effect: getItem and JSON.parse inside try/catch, an empty or
\* missing entry skipped by if (stored).
loadRecentColors(st) ==
  IF storageAccess = "denied" THEN st
  ELSE IF ~st.storage.present \/ st.storage.text = << >> THEN st
  ELSE LET parsed == JSONparse(st.storage.text)
       IN  IF ~parsed.ok THEN st
           ELSE [st EXCEPT !.recentColors = parsed.val]

\* The state an event leaves behind: the handler's state updates and the
\* render that follows them.  A render that throws takes the component down,
\* and what was emitted and stored by then stays.
Rendered(st, ev) ==
  /\ lastEvent' = ev
  /\ emitted' = st.emitted
  /\ storage' = st.storage
  /\ Len(st.emitted) <= MaxEmitted
  /\ IF st.crashed \/ RenderThrows(st.recentColors)
     THEN /\ phase' = "crashed"
          /\ UNCHANGED << currentColor, inputValue, recentColors >>
     ELSE /\ phase' = "mounted"
          /\ currentColor' = st.currentColor
          /\ inputValue' = st.inputValue
          /\ recentColors' = st.recentColors
  /\ UNCHANGED << props, convVars, copyVars >>

\* An event of the picker under an unchanged value prop.
Commit(st, ev) == Rendered(st, ev) /\ UNCHANGED restVars

\* ---------------------------------------------------------------- actions

\* The first render and the mount effects.
Mount ==
  /\ phase = "created"
  /\ Commit(loadRecentColors(Cur), Event("mount", << >>))

NativePickerChange ==
  /\ phase = "mounted"
  /\ \E v \in NativeValues :
       Commit(handleNativePickerChange(Cur, v), Event("native", v))

InputChange ==
  /\ phase = "mounted"
  /\ \E v \in TypedTexts :
       Commit(handleInputChange(Cur, v), Event("input", v))

PresetClick ==
  /\ phase = "mounted"
  /\ \E i \in 1..Len(presetColors) :
       Commit(handlePresetClick(Cur, presetColors[i]), Event("preset", presetColors[i]))

\* A swatch of the "Recent" block: rendered for an array with entries, and
\* wired to handlePresetClick.
RecentClick ==
  /\ phase = "mounted"
  /\ showRecentColors
  /\ recentColors.kind = "array"
  /\ \E i \in 1..Len(recentColors.items) :
       Commit(handlePresetClick(Cur, recentColors.items[i]),
              Event("recent", recentColors.items[i]))

Next ==
  \/ Mount
  \/ NativePickerChange
  \/ InputChange
  \/ PresetClick
  \/ RecentClick

Spec == Init /\ [][Next]_vars

\* ------------------------------------------------- vocabulary of the claims

\* '#' followed by exactly 6 hexadecimal digits.
ValidColor(s) ==
  /\ Len(s) = 7
  /\ s[1] = "#"
  /\ \A i \in 2..7 : toUpperCaseChar(s[i]) \in Digits \cup { "A", "B", "C", "D", "E", "F" }

\* Equal under case-insensitive comparison.
SameColor(a, b) == toUpperCase(a) = toUpperCase(b)

IsList == recentColors.kind = "array"
Entries == recentColors.items

\* The valid colors confirmed so far, oldest first: each was recorded.
Recorded == SelectSeq(emitted, ValidColor)

\* The colors of h (oldest first) by recency, each once, newest first.
RECURSIVE MostRecentFirst(_)
MostRecentFirst(h) ==
  IF h = << >> THEN << >>
  ELSE LET last == h[Len(h)]
       IN  << last >> \o SelectSeq(MostRecentFirst(SubSeq(h, 1, Len(h) - 1)),
                                   LAMBDA c : ~SameColor(c, last))

Occurrences(list, c) == Cardinality({ i \in 1..Len(list) : SameColor(list[i], c) })

\* A step of one of the handlers that confirm colors, with the component enabled.
ConfirmStep == lastEvent'.op \in { "native", "preset", "recent", "input" } /\ ~disabled

\* ------------------------------------------------------------------ claims

\* C1: in every reachable state the recent-color list holds no two entries that
\* are equal under case-insensitive comparison, and at most maxRecentColors
\* entries.
C1_DeduplicatedAndBounded ==
  IsList =>
    /\ \A i, j \in 1..Len(Entries) : i # j => ~SameColor(Entries[i], Entries[j])
    /\ Len(Entries) <= maxRecentColors

\* C2: the confirmed color is a valid hex color and so is every onChange
\* notification emitted.
C2_OnlyValidConfirmedOrEmitted ==
  /\ ValidColor(currentColor)
  /\ \A i \in 1..Len(emitted) : ValidColor(emitted[i])

\* C3: every entry of the recent-color list is a valid hex color, also right
\* after the load from storage.
C3_EntriesAreValidColors ==
  IsList => \A i \in 1..Len(Entries) : ValidColor(Entries[i])

\* C4 as stated: a text input t makes the buffer t; an invalid t leaves the
\* confirmed color, the list and the emitted notifications alone; a valid t is
\* confirmed in upper case, emitted, and first in the list.
C4_TextInputAsStated ==
  [][ (lastEvent'.op = "input" /\ ~disabled) =>
        LET t == lastEvent'.arg
            up == toUpperCase(t)
        IN  /\ inputValue' = t
            /\ IF ~ValidColor(t)
               THEN UNCHANGED << currentColor, recentColors, emitted >>
               ELSE /\ currentColor' = up
                    /\ emitted' = Append(emitted, up)
                    /\ recentColors'.kind = "array"
                    /\ Len(recentColors'.items) >= 1
                    /\ recentColors'.items[1] = up ]_vars

\* C4 as amended: an invalid t becomes the buffer and changes nothing else; a
\* valid t is emitted in upper case, and, the list in memory being an array of
\* strings, the buffer and the confirmed color both become t in upper case,
\* which is first in the list when maxRecentColors >= 1; on a list in memory
\* that is no array of strings the component fails after the notification.
C4_TextInput ==
  [][ (lastEvent'.op = "input" /\ ~disabled) =>
        LET t == lastEvent'.arg
            up == toUpperCase(t)
        IN  IF ~ValidColor(t)
            THEN /\ inputValue' = t
                 /\ UNCHANGED << currentColor, recentColors, emitted, storage >>
            ELSE /\ emitted' = Append(emitted, up)
                 /\ IF IsList
                    THEN /\ phase' = "mounted"
                         /\ inputValue' = up
                         /\ currentColor' = up
                         /\ recentColors'.kind = "array"
                         /\ maxRecentColors >= 1 =>
                              /\ Len(recentColors'.items) >= 1
                              /\ recentColors'.items[1] = up
                    ELSE phase' = "crashed" ]_vars

C4_Witness ==
  /\ phase = "mounted"
  /\ ~disabled
  /\ lastEvent.op = "input"
  /\ ValidColor(lastEvent.arg)
  /\ lastEvent.arg # toUpperCase(lastEvent.arg)
  /\ inputValue = toUpperCase(lastEvent.arg)
  /\ currentColor = toUpperCase(lastEvent.arg)
  /\ Len(Entries) = 2
  /\ Entries[1] = currentColor

\* C5: recording a valid color, whatever its source, removes the entries equal
\* to it under case-insensitive comparison, puts it first in upper case, keeps
\* the other entries in order and truncates to maxRecentColors.
C5_RecordNormalizesAndPrepends ==
  [][ (ConfirmStep /\ ValidColor(lastEvent'.arg) /\ IsList) =>
        LET c == lastEvent'.arg
            rest == SelectSeq(Entries, LAMBDA e : ~SameColor(e, c))
            all == << toUpperCase(c) >> \o rest
        IN  /\ recentColors'.kind = "array"
            /\ recentColors'.items =
                 SubSeq(all, 1, IF Len(all) < maxRecentColors THEN Len(all)
                                ELSE maxRecentColors) ]_vars

\* C6: recording a string that is not a valid hex color leaves the list as it
\* was and writes nothing to storage.
C6_InvalidColorNotRecorded ==
  [][ (ConfirmStep /\ ~ValidColor(lastEvent'.arg)) =>
        UNCHANGED << recentColors, storage >> ]_vars

C6_Witness ==
  /\ phase = "mounted"
  /\ ~disabled
  /\ lastEvent.op = "preset"
  /\ ~ValidColor(lastEvent.arg)
  /\ currentColor = lastEvent.arg
  /\ Len(emitted) >= 2
  /\ emitted[Len(emitted)] = lastEvent.arg
  /\ Len(Entries) >= 1
  /\ storageAccess = "ok"

\* C7: once more than maxRecentColors distinct valid colors have been recorded,
\* the list holds exactly maxRecentColors entries: the most recently recorded
\* colors, most recent first.
C7_KeepsTheMostRecent ==
  (phase = "mounted" /\ Len(MostRecentFirst(Recorded)) > maxRecentColors) =>
    /\ IsList
    /\ Len(Entries) = maxRecentColors
    /\ Entries = SubSeq(MostRecentFirst(Recorded), 1, maxRecentColors)

C7_Witness ==
  /\ phase = "mounted"
  /\ maxRecentColors = 2
  /\ Len(MostRecentFirst(Recorded)) = 3
  /\ Len(Entries) = 2

\* The last three recordings were c1, c2, c1 with c1 and c2 different colors.
RecordedC1C2C1 ==
  LET n == Len(Recorded)
  IN  /\ n >= 3
      /\ Recorded[n] = Recorded[n - 2]
      /\ ~SameColor(Recorded[n], Recorded[n - 1])

C1FirstAndOnce ==
  LET c1 == Recorded[Len(Recorded)]
  IN  /\ IsList
      /\ Len(Entries) >= 1
      /\ Entries[1] = c1
      /\ Occurrences(Entries, c1) = 1
      /\ Len(Entries) <= maxRecentColors

\* C8 as stated: for any max, after recording c1, c2, c1 the list starts with
\* c1, holds c1 once and has at most max entries.
C8_ReRecordAsStated ==
  (phase = "mounted" /\ RecordedC1C2C1) => C1FirstAndOnce

\* C8 as amended: the same for any max >= 1.
C8_ReRecord ==
  (phase = "mounted" /\ maxRecentColors >= 1 /\ RecordedC1C2C1) => C1FirstAndOnce

C8_Witness ==
  /\ phase = "mounted"
  /\ maxRecentColors = 2
  /\ RecordedC1C2C1
  /\ Len(Entries) = 2
  /\ Entries[1] = Recorded[1]

\* C9: with a storage that accepts writes, once a color has been recorded the
\* stored text decodes to the list in memory: the same entries in the same order.
C9_StorageHoldsTheList ==
  (phase = "mounted" /\ storageAccess = "ok" /\ Recorded # << >>) =>
    /\ storage.present
    /\ JSONparse(storage.text) = [ok |-> TRUE, val |-> recentColors]

C9_Witness ==
  /\ phase = "mounted"
  /\ storageAccess = "ok"
  /\ Len(Recorded) >= 2
  /\ Len(Entries) = 2
  /\ storage.present
  /\ Len(storage.text) = 21

\* The stored text is missing, cannot be read, or cannot be decoded.
NothingToLoad ==
  \/ storageAccess = "denied"
  \/ ~storage.present
  \/ ~JSONparse(storage.text).ok

\* C10: a load that finds no entry, whose read throws, or whose text cannot be
\* decoded leaves the list in memory empty and the component mounted.
C10_FailedLoadGivesEmptyList ==
  (lastEvent.op = "mount" /\ NothingToLoad) =>
    /\ phase = "mounted"
    /\ recentColors = JArray(<< >>)

C10_Witness ==
  /\ lastEvent.op = "mount"
  /\ phase = "mounted"
  /\ storageAccess = "ok"
  /\ storage.present
  /\ storage.text # << >>
  /\ ~JSONparse(storage.text).ok
  /\ recentColors = JArray(<< >>)

\* The stored text decodes, but not to a list of valid hex colors.
MalformedStored ==
  /\ storageAccess # "denied"
  /\ storage.present
  /\ JSONparse(storage.text).ok
  /\ LET v == JSONparse(storage.text).val
     IN  \/ v.kind # "array"
         \/ \E i \in 1..Len(v.items) : ~ValidColor(v.items[i])

\* C11: a load that decodes to something that is no list of hex colors leaves
\* the list in memory empty and the component mounted.
C11_MalformedLoadGivesEmptyList ==
  (lastEvent.op = "mount" /\ MalformedStored) =>
    /\ phase = "mounted"
    /\ recentColors = JArray(<< >>)

\* The color a confirming step hands to handleColorChange.
Confirmed(ev) ==
  IF ev.op \in { "native", "input" } THEN toUpperCase(ev.arg) ELSE ev.arg

\* C12: when the storage write throws while a valid color is confirmed, the
\* confirmed color and the list in memory are updated and onChange is emitted
\* all the same, the component stays mounted and the stored entry is untouched.
C12_WriteFailureSwallowed ==
  [][ (ConfirmStep /\ ValidColor(lastEvent'.arg) /\ storageAccess # "ok" /\ IsList) =>
        LET c == Confirmed(lastEvent')
            all == << c >> \o SelectSeq(Entries, LAMBDA e : ~SameColor(e, c))
        IN  /\ phase' = "mounted"
            /\ currentColor' = c
            /\ emitted' = Append(emitted, c)
            /\ recentColors'.kind = "array"
            /\ recentColors'.items =
                 SubSeq(all, 1, IF Len(all) < maxRecentColors THEN Len(all)
                                ELSE maxRecentColors)
            /\ storage' = storage ]_vars

C12_Witness ==
  /\ phase = "mounted"
  /\ storageAccess = "quota"
  /\ lastEvent.op = "input"
  /\ ValidColor(lastEvent.arg)
  /\ currentColor = toUpperCase(lastEvent.arg)
  /\ Len(emitted) >= 2
  /\ Len(Entries) >= 2
  /\ Entries[1] = currentColor
  /\ storage = Absent


\* ------------------------------------------------- the color conversions

\* The channel values the converted colors are built from: the extremes, the
\* neighbours that round to a hue of 360 degrees, channels whose saturation
\* lies half way between two percents, and those of the default color.
ConvChannels == {0, 1, 7, 9, 255}

ConvColors ==
  {<< r, g, b >> : r \in ConvChannels, g \in ConvChannels, b \in ConvChannels}
    \cup {<< 59, 130, 246 >>, << 128, 128, 128 >>, << 255, 87, 51 >>}

ConvShapes == {"hashLower", "hashUpper", "bareLower", "bareUpper"}

\* How a color is written in a shape.
Written(shape, c) ==
  LET lower == rgbToHex(c[1], c[2], c[3])
  IN  IF shape = "hashLower" THEN lower
      ELSE IF shape = "hashUpper" THEN toUpperCase(lower)
      ELSE IF shape = "bareLower" THEN Tail(lower)
      ELSE toUpperCase(Tail(lower))

\* Strings that are no 6-digit hex color: short form, named color, alpha form,
\* non-hex digits, empty, one digit short, a doubled '#', a trailing blank.
ConvOtherTexts ==
  { << "#", "F", "F", "F" >>,
    << "r", "e", "d" >>,
    << "#", "3", "B", "8", "2", "F", "6", "F", "F" >>,
    << "3", "B", "8", "2", "F", "6", "F", "F" >>,
    << "#", "G", "G", "H", "H", "I", "I" >>,
    << >>,
    << "#", "3", "B", "8", "2", "F" >>,
    << "#", "#", "3", "B", "8", "2", "F" >>,
    << "#", "3", "B", "8", "2", "F", " " >> }

Formats == {"hex", "rgb", "hsl"}

\* A mounted picker whose value prop is the color under conversion: the
\* useState initializers copy it to currentColor and inputValue as it is.
ConvInit ==
  /\ phase = "mounted"
  /\ disabled = FALSE
  /\ maxRecentColors = MaxRecentBound
  /\ showRecentColors = TRUE
  /\ presetColors = << >>
  /\ \/ \E shape \in ConvShapes, c \in ConvColors :
          /\ currentColor = Written(shape, c)
          /\ convCase = [shape |-> shape, r |-> c[1], g |-> c[2], b |-> c[3]]
     \/ /\ currentColor \in ConvOtherTexts
        /\ convCase = [shape |-> "other", r |-> 0, g |-> 0, b |-> 0]
  /\ inputValue = currentColor
  /\ recentColors = JArray(<< >>)
  /\ storage = Absent
  /\ storageAccess = "ok"
  /\ emitted = << >>
  /\ lastEvent = Event("none", << >>)
  /\ format \in Formats
  /\ rgbOut = NotConverted
  /\ hslOut = NotConvertedHsl
  /\ formatted = NotFormatted
  /\ CopyIdle
  /\ RestIdle

\* const rgb = hexToRgb(currentColor)
HexToRgb ==
  /\ ~rgbOut.done
  /\ rgbOut' = [done |-> TRUE] @@ hexToRgb(currentColor)
  /\ UNCHANGED << pickerVars, format, convCase, hslOut, formatted, copyVars, restVars >>

\* const hsl = hexToHsl(currentColor)
HexToHsl ==
  /\ ~hslOut.done
  /\ \E hUp \in BOOLEAN, sUp \in BOOLEAN :
       hslOut' = [done |-> TRUE] @@ hexToHsl(currentColor, hUp, sUp)
  /\ UNCHANGED << pickerVars, format, convCase, rgbOut, formatted, copyVars, restVars >>

\* getFormattedColor(), as the copy button and its title call it
GetFormattedColor ==
  /\ ~formatted.done
  /\ \E hUp \in BOOLEAN, sUp \in BOOLEAN :
       formatted' = [done |-> TRUE,
                     text |-> getFormattedColor(currentColor, format, hUp, sUp)]
  /\ UNCHANGED << pickerVars, format, convCase, rgbOut, hslOut, copyVars, restVars >>

ConvNext ==
  \/ HexToRgb
  \/ HexToHsl
  \/ GetFormattedColor

ConvSpec == ConvInit /\ [][ConvNext]_vars


\* --------------------------------------------- claims on the conversions

\* C17: for every valid hex color the derived HSL triple has its hue in
\* 0..359 and its saturation and lightness in 0..100.
C17_HslInRange ==
  (hslOut.done /\ ValidColor(currentColor)) =>
      /\ hslOut.ok
      /\ hslOut.h \in 0..359
      /\ hslOut.s \in 0..100
      /\ hslOut.l \in 0..100

\* Six hexadecimal digits in either case.
SixHexDigits(t) ==
  /\ Len(t) = 6
  /\ \A i \in 1..6 : toUpperCaseChar(t[i]) \in Digits \cup { "A", "B", "C", "D", "E", "F" }

\* An optional leading '#' followed by exactly six hexadecimal digits.
OptionalHashSixDigits(t) ==
  \/ SixHexDigits(t)
  \/ Len(t) = 7 /\ t[1] = "#" /\ SixHexDigits(Tail(t))

\* C18: hexToRgb accepts exactly the strings made of an optional '#' and six
\* hex digits in either case and returns the channels 0..255 their digit pairs
\* were written from; every other string gets the invalid result.
C18_ParseHexAcceptsExactly ==
  rgbOut.done =>
      /\ rgbOut.ok <=> OptionalHashSixDigits(currentColor)
      /\ rgbOut.ok <=> convCase.shape \in ConvShapes
      /\ rgbOut.ok =>
           /\ << rgbOut.r, rgbOut.g, rgbOut.b >> = << convCase.r, convCase.g, convCase.b >>
           /\ \A x \in {rgbOut.r, rgbOut.g, rgbOut.b} : x \in 0..255

\* A lower-case color without '#' has been parsed to the channels it was
\* written from.
C18_Witness ==
  /\ rgbOut.done
  /\ rgbOut.ok
  /\ currentColor = << "3", "b", "8", "2", "f", "6" >>
  /\ << rgbOut.r, rgbOut.g, rgbOut.b >> = << 59, 130, 246 >>

\* C19: a confirmed color that fails hex validation is returned unchanged by
\* getFormattedColor whatever the format is.
C19_InvalidColorReturnedUnchanged ==
  (formatted.done /\ ~ValidColor(currentColor)) => formatted.text = currentColor

\* A named color has been formatted as hsl and came back as it was.
C19_Witness ==
  /\ formatted.done
  /\ format = "hsl"
  /\ currentColor = << "r", "e", "d" >>
  /\ formatted.text = << "r", "e", "d" >>

\* The decimal numeral of a channel value.
DecimalText(n) ==
  LET numerals == << "0", "1", "2", "3", "4", "5", "6", "7", "8", "9" >>
      units == numerals[(n % 10) + 1]
      tens == numerals[((n \div 10) % 10) + 1]
      hundreds == numerals[(n \div 100) + 1]
  IN  IF n < 10 THEN << units >>
      ELSE IF n < 100 THEN << tens, units >>
      ELSE << hundreds, tens, units >>

\* The text "rgb(r, g, b)".
RgbText(r, g, b) ==
  << "r", "g", "b", "(" >> \o DecimalText(r) \o << ",", " " >> \o DecimalText(g)
    \o << ",", " " >> \o DecimalText(b) \o << ")" >>

\* C20: for a valid hex color c the hex format returns c unchanged and the rgb
\* format returns "rgb(r, g, b)" with the decimal values of the three digit
\* pairs of c; "#3B82F6" gives "rgb(59, 130, 246)".
C20_HexAndRgbFormats ==
  (formatted.done /\ ValidColor(currentColor)) =>
      /\ format = "hex" => formatted.text = currentColor
      /\ format = "rgb" => formatted.text = RgbText(convCase.r, convCase.g, convCase.b)
      /\ (format = "rgb" /\ currentColor = << "#", "3", "B", "8", "2", "F", "6" >>) =>
           formatted.text = << "r", "g", "b", "(", "5", "9", ",", " ", "1", "3", "0",
                               ",", " ", "2", "4", "6", ")" >>

\* "#3B82F6" has been formatted as rgb.
C20_Witness ==
  /\ formatted.done
  /\ format = "rgb"
  /\ currentColor = << "#", "3", "B", "8", "2", "F", "6" >>
  /\ formatted.text = RgbText(59, 130, 246)


\* ------------------------------------------------- the copy acknowledgment

\* setTimeout(() => setCopied(false), 2000)
CopiedDelay == 2000

\* Time advances in steps of half the delay.
TimeStep == CopiedDelay \div 2

\* The copy requests of a behavior.
MaxCopies == 3

\* The confirmed colors a copy is requested on: the default, one whose hue
\* rounds to 360 degrees, one that fails validation.
CopyColors ==
  { DefaultValue,
    << "#", "F", "F", "0", "0", "0", "1" >>,
    << "r", "e", "d" >> }

CopyInit ==
  /\ phase = "mounted"
  /\ disabled \in BOOLEAN
  /\ maxRecentColors = MaxRecentBound
  /\ showRecentColors = TRUE
  /\ presetColors = << >>
  /\ currentColor \in CopyColors
  /\ inputValue = currentColor
  /\ recentColors = JArray(<< >>)
  /\ storage = Absent
  /\ storageAccess = "ok"
  /\ emitted = << >>
  /\ lastEvent = Event("none", << >>)
  /\ format \in Formats
  /\ convCase = NoCase
  /\ rgbOut = NotConverted
  /\ hslOut = NotConvertedHsl
  /\ formatted = NotFormatted
  /\ CopyIdle
  /\ RestIdle

CurCopy ==
  [copied |-> copied, pendingWrites |-> pendingWrites, clipboardText |-> clipboardText,
   timers |-> timers, copies |-> copies]

\* The sequence without its i-th element.
Without(seq, i) == SubSeq(seq, 1, i - 1) \o SubSeq(seq, i + 1, Len(seq))

\* handleCopy up to its await: navigator.clipboard.writeText(text) is called.
handleCopy(cp, text) ==
  [cp EXCEPT !.pendingWrites = Append(@, text), !.copies = @ + 1]

\* A variant that acknowledges the copy without scheduling the expiry.
handleCopyResolvedNoTimer(cp, i, mounted) ==
  [cp EXCEPT !.pendingWrites = Without(@, i),
             !.clipboardText = cp.pendingWrites[i],
             !.copied = IF mounted THEN TRUE ELSE @]

\* handleCopy after the await, the i-th pending write having succeeded:
\* setCopied(true), which an unmounted component ignores, and setTimeout.
handleCopyResolved(cp, i, mounted) ==
  [cp EXCEPT !.pendingWrites = Without(@, i),
             !.clipboardText = cp.pendingWrites[i],
             !.copied = IF mounted THEN TRUE ELSE @,
             !.timers = Append(@, CopiedDelay)]

\* A variant that acknowledges a rejected write like a successful one.
handleCopyRejectedAcknowledging(cp, i) ==
  [cp EXCEPT !.pendingWrites = Without(@, i),
             !.copied = TRUE,
             !.timers = Append(@, CopiedDelay)]

\* handleCopy after the await, the i-th pending write having been rejected:
\* the catch block logs the error.
handleCopyRejected(cp, i) ==
  [cp EXCEPT !.pendingWrites = Without(@, i)]

\* () => setCopied(false), run when the oldest timer expires.
copyTimerCallback(cp, mounted) ==
  [cp EXCEPT !.timers = Tail(@),
             !.copied = IF mounted THEN FALSE ELSE @]

CommitCopy(cp, ev) ==
  /\ copied' = cp.copied
  /\ pendingWrites' = cp.pendingWrites
  /\ clipboardText' = cp.clipboardText
  /\ timers' = cp.timers
  /\ copies' = cp.copies
  /\ lastEvent' = ev
  /\ UNCHANGED << phase, props, currentColor, inputValue, recentColors, storage,
                  storageAccess, emitted, convVars, restVars >>

\* The copy button is clicked: <Button onClick={handleCopy} disabled={disabled}>.
HandleCopy ==
  /\ phase = "mounted"
  /\ ~disabled
  /\ copies < MaxCopies
  /\ \E hUp \in BOOLEAN, sUp \in BOOLEAN :
       LET text == getFormattedColor(currentColor, format, hUp, sUp)
       IN  CommitCopy(handleCopy(CurCopy, text), Event("copy", text))

\* The clipboard service reports success for a pending write.
ClipboardResolve ==
  \E i \in 1..Len(pendingWrites) :
    CommitCopy(handleCopyResolved(CurCopy, i, phase = "mounted"),
               Event("clipboardResolve", pendingWrites[i]))

\* The clipboard service reports failure for a pending write.
ClipboardReject ==
  \E i \in 1..Len(pendingWrites) :
    CommitCopy(handleCopyRejected(CurCopy, i),
               Event("clipboardReject", pendingWrites[i]))

\* The oldest timer has run out and its callback runs.
CopyTimer ==
  /\ timers # << >>
  /\ timers[1] = 0
  /\ CommitCopy(copyTimerCallback(CurCopy, phase = "mounted"), Event("copyTimer", << >>))

\* Time passes while no timer is due.
Tick ==
  /\ timers # << >>
  /\ timers[1] > 0
  /\ CommitCopy([CurCopy EXCEPT !.timers = [i \in 1..Len(timers) |-> timers[i] - TimeStep]],
                Event("tick", << >>))

\* The component is removed: no effect of the picker has a cleanup, the
\* timers and the pending writes stay as they are.
Unmount ==
  /\ phase = "mounted"
  /\ phase' = "unmounted"
  /\ lastEvent' = Event("unmount", << >>)
  /\ UNCHANGED << props, currentColor, inputValue, recentColors, storage,
                  storageAccess, emitted, convVars, copyVars, restVars >>

CopyNext ==
  \/ HandleCopy
  \/ ClipboardResolve
  \/ ClipboardReject
  \/ CopyTimer
  \/ Tick
  \/ Unmount

CopySpec == CopyInit /\ [][CopyNext]_vars

\* Time passes and a timer that is due runs its callback: the event loop
\* keeps turning.
CopySpecFair == CopySpec /\ WF_vars(Tick) /\ WF_vars(CopyTimer)


\* ------------------------------------- claims on the copy acknowledgment

\* The step on which a pending clipboard write succeeds, fails.
ResolveStep == lastEvent'.op = "clipboardResolve" /\ Len(pendingWrites') < Len(pendingWrites)
RejectStep == lastEvent'.op = "clipboardReject" /\ Len(pendingWrites') < Len(pendingWrites)

\* C13: a second successful copy while the flag is set restarts the delay, so
\* the flag is never cleared while the delay of a later copy is still
\* running.
C13_SecondCopyRestartsDelay ==
  [][ (copied /\ ~copied') => \A i \in 1..Len(timers') : timers'[i] = 0 ]_vars

\* C14: every successful clipboard write sets the flag, the flag is set by
\* nothing else, and while the component stays mounted a set flag is
\* eventually cleared again.
C14_AcknowledgedThenCleared ==
  /\ [][ /\ (ResolveStep /\ phase = "mounted") => copied'
         /\ (~copied /\ copied') => ResolveStep ]_vars
  /\ (copied /\ phase = "mounted") ~> (~copied \/ phase # "mounted")

\* A copy has been acknowledged and the acknowledgment has expired.
C14_Witness ==
  /\ phase = "mounted"
  /\ lastEvent.op = "copyTimer"
  /\ ~copied
  /\ clipboardText = << "r", "g", "b", "(", "5", "9", ",", " ", "1", "3", "0",
                        ",", " ", "2", "4", "6", ")" >>

\* C15: after the component is torn down no timer callback runs against it.
C15_NoTimerAfterTeardown ==
  ~(phase = "unmounted" /\ lastEvent.op = "copyTimer")

\* C16: a rejected clipboard write leaves the flag as it was, schedules no
\* timer, and leaves the confirmed color, the input buffer and the recent
\* colors unchanged.
C16_RejectedWriteLeavesNoTrace ==
  [][ RejectStep =>
        /\ copied' = copied
        /\ timers' = timers
        /\ clipboardText' = clipboardText
        /\ currentColor' = currentColor
        /\ inputValue' = inputValue
        /\ recentColors' = recentColors
        /\ phase' = phase ]_vars

\* The only copy requested was rejected: no flag, no timer.
C16_Witness ==
  /\ phase = "mounted"
  /\ lastEvent.op = "clipboardReject"
  /\ copies = 1
  /\ pendingWrites = << >>
  /\ ~copied
  /\ timers = << >>


\* ------------------------------------------------ claims, achromatic colors

\* The whole percent nearest to c / 255.
RoundedPercent(c) ==
  CHOOSE p \in 0..100 : 510 * p - 255 <= 200 * c /\ 200 * c < 510 * p + 255

\* C21: a valid hex color with three equal channels has hue 0, saturation 0
\* and the rounded channel percentage as lightness; "#000000" formats as
\* "hsl(0, 0%, 0%)".
C21_AchromaticHsl ==
  /\ (hslOut.done /\ ValidColor(currentColor)
        /\ convCase.r = convCase.g /\ convCase.g = convCase.b) =>
         /\ hslOut.ok
         /\ hslOut.h = 0
         /\ hslOut.s = 0
         /\ hslOut.l = RoundedPercent(convCase.r)
  /\ (formatted.done /\ format = "hsl"
        /\ currentColor = << "#", "0", "0", "0", "0", "0", "0" >>) =>
         formatted.text = << "h", "s", "l", "(", "0", ",", " ", "0", "%", ",", " ",
                             "0", "%", ")" >>

\* The grey "#070707" has been converted: 7 / 255 is 2.7 percent.
C21_Witness ==
  /\ hslOut.done
  /\ currentColor = << "#", "0", "7", "0", "7", "0", "7" >>
  /\ << hslOut.h, hslOut.s, hslOut.l >> = << 0, 0, 3 >>


\* ------------------------------------------------ claims, disabled picker

\* C24: while the picker is disabled no native-picker change, preset click,
\* recent-swatch click or text input changes the confirmed color or the
\* recent colors, writes to storage or emits onChange.
C24_DisabledChangesNothing ==
  [][ (disabled /\ lastEvent'.op \in { "native", "preset", "recent", "input" }) =>
        /\ currentColor' = currentColor
        /\ recentColors' = recentColors
        /\ storage' = storage
        /\ emitted' = emitted ]_vars

\* The native picker reported a color to a disabled picker that shows a
\* stored list: nothing was confirmed or emitted.
C24_Witness ==
  /\ disabled
  /\ phase = "mounted"
  /\ lastEvent.op = "native"
  /\ currentColor = DefaultValue
  /\ emitted = << >>
  /\ storage = Stored(EarlierList)
  /\ recentColors.kind = "array"
  /\ Len(recentColors.items) = 3


\* ------------------------------------------------- the controlled value

\* The values the parent passes: none, colors in either case, a named color.
SyncValues ==
  { << >>,
    DefaultValue,
    << "#", "3", "b", "8", "2", "f", "6" >>,
    << "#", "F", "F", "5", "7", "3", "3" >>,
    << "r", "e", "d" >> }

SyncInit ==
  /\ phase = "created"
  /\ disabled \in BOOLEAN
  /\ maxRecentColors = MaxRecentBound
  /\ showRecentColors = TRUE
  /\ presetColors = << >>
  /\ currentColor = DefaultValue
  /\ inputValue = DefaultValue
  /\ recentColors = JArray(<< >>)
  /\ storageAccess = "ok"
  /\ storage \in { Absent, Stored(EarlierList) }
  /\ emitted = << >>
  /\ lastEvent = Event("none", << >>)
  /\ ConvIdle
  /\ CopyIdle
  /\ RestIdle

\* A variant that confirms the new value the way a user's choice is confirmed.
syncValueConfirming(st, v) ==
  IF v # << >> /\ v # st.currentColor THEN handleColorChangeUnguarded(st, v) ELSE st

\* The effect on [value]: if (value && value !== currentColor) both
\* setCurrentColor(value) and setInputValue(value).
syncValue(st, v) ==
  IF v # << >> /\ v # st.currentColor
  THEN [st EXCEPT !.currentColor = v, !.inputValue = v]
  ELSE st

\* The parent renders the picker with another value: the effect runs.
ValueChange ==
  /\ phase = "mounted"
  /\ \E v \in SyncValues \ { value } :
       /\ value' = v
       /\ Rendered(syncValue(Cur, v), Event("value", v))
       /\ UNCHANGED << twinVars, searchVars >>

SyncNext ==
  \/ Mount
  \/ NativePickerChange
  \/ InputChange
  \/ ValueChange

SyncSpec == SyncInit /\ [][SyncNext]_vars

\* C25: a value prop that changes to a non-empty value other than the
\* confirmed color becomes the confirmed color and the input buffer; an empty
\* one changes nothing; either way the recent colors and the storage stay and
\* onChange is not emitted.
C25_ValuePropSync ==
  [][ (lastEvent'.op = "value" /\ value' # value) =>
        /\ (value' # << >> /\ value' # currentColor) =>
             (currentColor' = value' /\ inputValue' = value')
        /\ value' = << >> =>
             (currentColor' = currentColor /\ inputValue' = inputValue)
        /\ recentColors' = recentColors
        /\ storage' = storage
        /\ emitted' = emitted
        /\ phase' = phase ]_vars

\* After a color was confirmed and recorded, the parent passed another one.
C25_Witness ==
  /\ lastEvent.op = "value"
  /\ value = << "#", "F", "F", "5", "7", "3", "3" >>
  /\ currentColor = value
  /\ inputValue = value
  /\ emitted = << DefaultValue >>
  /\ recentColors = JArray(<< DefaultValue >>)


\* ------------------------------------------- two pickers on the same page

\* Two pickers with the same props, both about to mount, over an empty
\* "color-picker-recent".
TwinInit ==
  /\ phase = "created"
  /\ disabled = FALSE
  /\ maxRecentColors = MaxRecentBound
  /\ showRecentColors = TRUE
  /\ presetColors = << >>
  /\ currentColor = DefaultValue
  /\ inputValue = DefaultValue
  /\ recentColors = JArray(<< >>)
  /\ storageAccess = "ok"
  /\ storage = Absent
  /\ emitted = << >>
  /\ lastEvent = Event("none", << >>)
  /\ ConvIdle
  /\ CopyIdle
  /\ value = DefaultValue
  /\ SearchIdle
  /\ twinPhase = "created"
  /\ twinCurrentColor = DefaultValue
  /\ twinInputValue = DefaultValue
  /\ twinRecentColors = JArray(<< >>)
  /\ twinEmitted = << >>

\* The state of the second picker, over the storage both share.
TwinCur ==
  [currentColor |-> twinCurrentColor, inputValue |-> twinInputValue,
   recentColors |-> twinRecentColors, storage |-> storage,
   emitted |-> twinEmitted, crashed |-> FALSE]

\* An event of the second picker: its state updates and its render.
TwinCommit(st, ev) ==
  /\ lastEvent' = ev
  /\ twinEmitted' = st.emitted
  /\ storage' = st.storage
  /\ Len(st.emitted) <= MaxEmitted
  /\ IF st.crashed \/ RenderThrows(st.recentColors)
     THEN /\ twinPhase' = "crashed"
          /\ UNCHANGED << twinCurrentColor, twinInputValue, twinRecentColors >>
     ELSE /\ twinPhase' = "mounted"
          /\ twinCurrentColor' = st.currentColor
          /\ twinInputValue' = st.inputValue
          /\ twinRecentColors' = st.recentColors
  /\ UNCHANGED << phase, props, currentColor, inputValue, recentColors, emitted,
                  convVars, copyVars, value, searchVars >>

TwinMount ==
  /\ twinPhase = "created"
  /\ TwinCommit(loadRecentColors(TwinCur), Event("twinMount", << >>))

TwinInputChange ==
  /\ twinPhase = "mounted"
  /\ \E v \in TypedTexts :
       TwinCommit(handleInputChange(TwinCur, v), Event("twinInput", v))

TwinNext ==
  \/ Mount
  \/ InputChange
  \/ TwinMount
  \/ TwinInputChange

TwinSpec == TwinInit /\ [][TwinNext]_vars

\* The valid colors either picker has recorded, and the colors of the
\* persisted list, both in upper case.
RecordedByEither ==
  { toUpperCase(emitted[i]) : i \in { j \in 1..Len(emitted) : ValidColor(emitted[j]) } }
    \cup { toUpperCase(twinEmitted[i]) :
             i \in { j \in 1..Len(twinEmitted) : ValidColor(twinEmitted[j]) } }

PersistedColors ==
  IF ~storage.present THEN { }
  ELSE LET parsed == JSONparse(storage.text)
       IN  IF parsed.ok /\ parsed.val.kind = "array"
           THEN { toUpperCase(parsed.val.items[i]) : i \in 1..Len(parsed.val.items) }
           ELSE { }

\* C26: with two pickers mounted, a valid color recorded by one is still in
\* the persisted list after the other recorded a different one, as long as
\* fewer than max distinct colors have been recorded in total.
C26_NoLostUpdate ==
  (phase = "mounted" /\ twinPhase = "mounted"
     /\ Cardinality(RecordedByEither) < maxRecentColors) =>
      RecordedByEither \subseteq PersistedColors


\* ------------------------------------------------------------ SearchInput

\* debounceMs = 300
DebounceMs == 300

\* setTimeout(..., 500) of the demo's simulated search
SimulatedDelay == 500

\* Time advances in steps that both delays are multiples of.
SearchStep == DebounceMs \div 3

\* What is typed into the search field.
SearchTexts == { "", "a", "ab" }

NoTimer == -1

NoCalls == [onSearch |-> << >>, onChange |-> << >>, onRecentSearchClick |-> << >>]

\* The parent's state, the component's state and the callbacks invoked so
\* far, as a handler and the effects after it see and change them.
World == [p |-> parentState, s |-> search, c |-> NoCalls]

\* const inputValue = isControlled ? value : internalValue
searchInputValue(w) ==
  IF searchProps.controlled THEN w.p.value ELSE w.s.internalValue

\* recentSearches.slice(0, maxRecentSearches)
displayedRecentSearches(w) ==
  SubSeq(w.p.recentSearches, 1,
         IF searchProps.maxRecentSearches < Len(w.p.recentSearches)
         THEN searchProps.maxRecentSearches ELSE Len(w.p.recentSearches))

\* showRecent && showRecentSearches && displayedRecentSearches.length > 0
dropdownRendered(w) ==
  /\ w.s.showRecent
  /\ searchProps.showRecentSearches
  /\ Len(displayedRecentSearches(w)) > 0

\* The demo's handleSearch: setLoading(true) and a timer whose callback holds
\* value and the recentSearches of the render that made it.  Pending timers
\* with the same delay left and the same callback are kept once.
handleSearch(w, v) ==
  [w EXCEPT !.p.loading = TRUE,
            !.p.simTimers = @ \cup { [left |-> SimulatedDelay, value |-> v,
                                      recentSearches |-> w.p.recentSearches] }]

\* onSearch(v): the call is noted, and the demo's parent runs handleSearch.
callOnSearch(w, v) ==
  LET w1 == [w EXCEPT !.c.onSearch = Append(@, v)]
  IN  IF searchProps.demo THEN handleSearch(w1, v) ELSE w1

\* onChange(v): the call is noted; a parent that echoes (onChange={setValue})
\* stores v as the value it passes down.
callOnChange(w, v) ==
  LET w1 == [w EXCEPT !.c.onChange = Append(@, v)]
  IN  IF searchProps.echo THEN [w1 EXCEPT !.p.value = v] ELSE w1

\* onRecentSearchClick(v): the call is noted; the demo passes handleSearch.
callOnRecentSearchClick(w, v) ==
  LET w1 == [w EXCEPT !.c.onRecentSearchClick = Append(@, v)]
  IN  IF searchProps.demo THEN handleSearch(w1, v) ELSE w1

\* Whether the parent renders again: one of its useState values changed.
parentRenders(w0, w) ==
  \/ w.p.value # w0.p.value
  \/ w.p.loading # w0.p.loading
  \/ w.p.recentSearches # w0.p.recentSearches

\* useDebounce's effect on [value, delay]: the cleanup clears the pending
\* timer and a new one is set.  heldFor is the time the value has not changed.
useDebounceEffect(w) ==
  [w EXCEPT !.s.timer = DebounceMs, !.s.heldFor = 0]

\* The effect on [debouncedValue, onSearch]: onSearch(debouncedValue).  When
\* the call makes the parent render again with a new onSearch, the effect runs
\* once more; a second setLoading(true) changes nothing.
onSearchEffect(w) ==
  LET w1 == callOnSearch(w, w.s.debouncedValue)
  IN  IF parentRenders(w, w1) /\ ~searchProps.stableOnSearch
      THEN callOnSearch(w1, w1.s.debouncedValue)
      ELSE w1

\* The render after a handler that took w0 to w, and its effects: the
\* debounce effect when the input value changed, the onSearch effect when the
\* parent rendered and passed a new function.
settle(w0, w) ==
  LET w1 == IF searchInputValue(w) # searchInputValue(w0) THEN useDebounceEffect(w) ELSE w
  IN  IF parentRenders(w0, w) /\ ~searchProps.stableOnSearch
      THEN onSearchEffect(w1)
      ELSE w1


\* handleChange(e) with e.target.value = newValue; typedTexts keeps what has
\* been typed.
handleChange(w, newValue) ==
  LET w1 == IF searchProps.controlled
            THEN callOnChange(w, newValue)
            ELSE [w EXCEPT !.s.internalValue = newValue]
  IN  [w1 EXCEPT !.s.showRecent = (searchProps.showRecentSearches /\ newValue = ""),
                 !.s.typedTexts = @ \cup { newValue }]

handleClear(w) ==
  IF searchProps.disabled THEN w
  ELSE LET w1 == IF searchProps.controlled
                 THEN callOnChange(w, "")
                 ELSE [w EXCEPT !.s.internalValue = ""]
           w2 == callOnSearch(w1, "")
       IN  [w2 EXCEPT !.s.showRecent = FALSE]

handleRecentClick(w, text) ==
  IF searchProps.disabled THEN w
  ELSE LET w1 == IF searchProps.controlled
                 THEN callOnChange(w, text)
                 ELSE [w EXCEPT !.s.internalValue = text]
           w2 == callOnRecentSearchClick(w1, text)
       IN  [w2 EXCEPT !.s.showRecent = FALSE]

handleFocus(w) ==
  IF searchProps.showRecentSearches /\ searchInputValue(w) = ""
       /\ Len(w.p.recentSearches) > 0
  THEN [w EXCEPT !.s.showRecent = TRUE]
  ELSE w

\* handleClickOutside for a mousedown outside the container
handleClickOutside(w) == [w EXCEPT !.s.showRecent = FALSE]

\* The timer of useDebounce runs out: setDebouncedValue(value), and the
\* effect on [debouncedValue, onSearch] when that changed it.
debounceTimeout(w) ==
  LET w1 == [w EXCEPT !.s.timer = NoTimer, !.s.debouncedValue = searchInputValue(w)]
  IN  IF w1.s.debouncedValue # w.s.debouncedValue THEN onSearchEffect(w1) ELSE w1

\* What an event of the search field leaves unchanged.
searchFrame ==
  << phase, props, currentColor, inputValue, recentColors, storage, emitted,
     convVars, copyVars, value, twinVars, searchProps >>

SearchCommit(w, ev) ==
  /\ parentState' = w.p
  /\ search' = w.s
  /\ called' = w.c
  /\ lastEvent' = ev
  /\ UNCHANGED searchFrame

\* The first render and the mount effects: useDebounce sets its timer and
\* onSearch is called with the initial debounced value.
SearchMount ==
  /\ searchPhase = "created"
  /\ searchPhase' = "mounted"
  /\ SearchCommit(onSearchEffect(useDebounceEffect(World)), Event("searchMount", ""))
  /\ UNCHANGED typed

\* The user edits the text: <input onChange={handleChange} disabled={disabled}>.
ChangeStep ==
  /\ searchPhase = "mounted"
  /\ ~searchProps.disabled
  /\ \E v \in SearchTexts \ { searchInputValue(World) } :
       /\ SearchCommit(settle(World, handleChange(World, v)), Event("change", v))
       /\ UNCHANGED searchPhase

\* The clear button, rendered for inputValue && !isLoading && !disabled.
ClearStep ==
  /\ searchPhase = "mounted"
  /\ searchInputValue(World) # ""
  /\ ~parentState.loading
  /\ ~searchProps.disabled
  /\ SearchCommit(settle(World, handleClear(World)), Event("clear", ""))
  /\ UNCHANGED searchPhase

\* handleKeyDown with e.key === "Escape": handleClear and blur.
EscapeStep ==
  /\ searchPhase = "mounted"
  /\ ~searchProps.disabled
  /\ SearchCommit(settle(World, handleClear(World)), Event("escape", ""))
  /\ UNCHANGED searchPhase

\* An entry of the dropdown is clicked.
RecentSearchStep ==
  /\ searchPhase = "mounted"
  /\ dropdownRendered(World)
  /\ \E i \in 1..Len(displayedRecentSearches(World)) :
       LET text == displayedRecentSearches(World)[i]
       IN  SearchCommit(settle(World, handleRecentClick(World, text)),
                        Event("recentSearch", text))
  /\ UNCHANGED searchPhase

FocusStep ==
  /\ searchPhase = "mounted"
  /\ ~searchProps.disabled
  /\ SearchCommit(handleFocus(World), Event("focus", ""))
  /\ UNCHANGED searchPhase

ClickOutsideStep ==
  /\ searchPhase = "mounted"
  /\ SearchCommit(handleClickOutside(World), Event("clickOutside", ""))
  /\ UNCHANGED searchPhase

SearchChange == ChangeStep /\ UNCHANGED typed
SearchClear == ClearStep /\ UNCHANGED typed
SearchEscape == EscapeStep /\ UNCHANGED typed
SearchRecentClick == RecentSearchStep /\ UNCHANGED typed
SearchFocus == FocusStep /\ UNCHANGED typed
SearchClickOutside == ClickOutsideStep /\ UNCHANGED typed

\* The parent of a controlled field passes another value of its own accord.
ExternalValue ==
  /\ searchPhase = "mounted"
  /\ searchProps.controlled
  /\ \E v \in SearchTexts \ { parentState.value } :
       SearchCommit(settle(World, [World EXCEPT !.p.value = v]), Event("externalValue", v))
  /\ UNCHANGED << searchPhase, typed >>

\* The parent renders again for a reason of its own and passes a new
\* function as onSearch: onSearch={(value) => ...}.
ParentRender ==
  /\ searchPhase = "mounted"
  /\ ~searchProps.stableOnSearch
  /\ SearchCommit(onSearchEffect(World), Event("parentRender", ""))
  /\ UNCHANGED << searchPhase, typed >>

\* The debounce timer is due.
DebounceTimeout ==
  /\ searchPhase = "mounted"
  /\ search.timer = 0
  /\ SearchCommit(debounceTimeout(World), Event("debounceTimeout", ""))
  /\ UNCHANGED << searchPhase, typed >>

\* Time passes while no timer is due.
SearchTick ==
  /\ searchPhase = "mounted"
  /\ search.timer # 0
  /\ \A t \in parentState.simTimers : t.left > 0
  /\ ~(search.timer = NoTimer /\ parentState.simTimers = { }
         /\ search.heldFor >= DebounceMs)
  /\ SearchCommit(
       [World EXCEPT
          !.s.timer = IF @ = NoTimer THEN NoTimer ELSE @ - SearchStep,
          !.s.heldFor = IF @ < DebounceMs THEN @ + SearchStep ELSE @,
          !.p.simTimers = { [t EXCEPT !.left = @ - SearchStep] : t \in @ }],
       Event("searchTick", ""))
  /\ UNCHANGED << searchPhase, typed >>

\* No color picker is on the page.
PickerIdle ==
  /\ phase = "created"
  /\ disabled = FALSE
  /\ maxRecentColors = MaxRecentBound
  /\ showRecentColors = TRUE
  /\ presetColors = << >>
  /\ currentColor = DefaultValue
  /\ inputValue = DefaultValue
  /\ recentColors = JArray(<< >>)
  /\ storageAccess = "ok"
  /\ storage = Absent
  /\ emitted = << >>
  /\ ConvIdle
  /\ CopyIdle
  /\ value = DefaultValue
  /\ TwinIdle

\* The recentSearches a parent passes: none (the default), or three.
RecentSearchChoices == { << >>, << "React", "TypeScript", "Next.js" >> }

\* A SearchInput about to mount: uncontrolled, or controlled by a parent that
\* stores what onChange reports or one that does not; onSearch a function
\* that stays the same or one made anew by every render of the parent.
SearchInit ==
  /\ PickerIdle
  /\ lastEvent = Event("none", "")
  /\ searchProps \in
       { [controlled |-> c, echo |-> e, stableOnSearch |-> st, demo |-> FALSE,
          showRecentSearches |-> sh, maxRecentSearches |-> mx, disabled |-> d] :
           c \in BOOLEAN, e \in BOOLEAN, st \in BOOLEAN, sh \in BOOLEAN,
           mx \in { 0, 2, 5 }, d \in BOOLEAN }
  /\ searchProps.echo => searchProps.controlled
  /\ searchPhase = "created"
  /\ \E rs \in RecentSearchChoices :
       parentState = [value |-> "", loading |-> FALSE, recentSearches |-> rs,
                      simTimers |-> { }]
  /\ search = [internalValue |-> "", showRecent |-> FALSE, debouncedValue |-> "",
               timer |-> NoTimer, heldFor |-> 0, typedTexts |-> { }]
  /\ called = NoCalls
  /\ typed = 0

SearchNext ==
  \/ SearchMount
  \/ SearchChange
  \/ SearchClear
  \/ SearchEscape
  \/ SearchRecentClick
  \/ SearchFocus
  \/ SearchClickOutside
  \/ ExternalValue
  \/ ParentRender
  \/ DebounceTimeout
  \/ SearchTick

SearchSpec == SearchInit /\ [][SearchNext]_vars


\* -------------------------------------------------------- SearchInputDemo

\* The user's actions on the demo in a behavior.
MaxTyped == 2

\* SearchInputDemo: value={searchValue} onChange={setSearchValue}
\* onSearch={handleSearch}, a function made by every render of the demo,
\* isLoading={loading}, showRecentSearches, three recentSearches to start with.
DemoInit ==
  /\ PickerIdle
  /\ lastEvent = Event("none", "")
  /\ searchProps = [controlled |-> TRUE, echo |-> TRUE, stableOnSearch |-> FALSE,
                    demo |-> TRUE, showRecentSearches |-> TRUE,
                    maxRecentSearches |-> 5, disabled |-> FALSE]
  /\ searchPhase = "created"
  /\ parentState = [value |-> "", loading |-> FALSE,
                    recentSearches |-> << "React", "TypeScript", "Next.js" >>,
                    simTimers |-> { }]
  /\ search = [internalValue |-> "", showRecent |-> FALSE, debouncedValue |-> "",
               timer |-> NoTimer, heldFor |-> 0, typedTexts |-> { }]
  /\ called = NoCalls
  /\ typed = 0

\* The callback of the simulated search: setLoading(false), and a value that
\* is not empty and not in the recentSearches the callback holds is put in
\* front of the first four of them.
simulatedSearchDone(w, t) ==
  LET known == { t.recentSearches[i] : i \in 1..Len(t.recentSearches) }
      kept == SubSeq(t.recentSearches, 1,
                     IF Len(t.recentSearches) < 4 THEN Len(t.recentSearches) ELSE 4)
  IN  [w EXCEPT !.p.simTimers = @ \ { t },
                !.p.loading = FALSE,
                !.p.recentSearches =
                   IF t.value # "" /\ t.value \notin known
                   THEN << t.value >> \o kept ELSE @]

\* A timer of the simulated search is due.
SimulatedSearchTimeout ==
  /\ searchPhase = "mounted"
  /\ \E t \in parentState.simTimers :
       /\ t.left = 0
       /\ SearchCommit(settle(World, simulatedSearchDone(World, t)),
                       Event("simulatedSearchTimeout", t.value))
  /\ UNCHANGED << searchPhase, typed >>

\* The user's actions.  The clear button is not among them: it is rendered
\* for !isLoading, and loading is true whenever the demo is at rest.
DemoChange == typed < MaxTyped /\ typed' = typed + 1 /\ ChangeStep
DemoEscape == typed < MaxTyped /\ typed' = typed + 1 /\ EscapeStep
DemoRecentClick == typed < MaxTyped /\ typed' = typed + 1 /\ RecentSearchStep
DemoFocus == typed < MaxTyped /\ typed' = typed + 1 /\ FocusStep
DemoClickOutside == typed < MaxTyped /\ typed' = typed + 1 /\ ClickOutsideStep

DemoNext ==
  \/ SearchMount
  \/ DemoChange
  \/ DemoEscape
  \/ DemoRecentClick
  \/ DemoFocus
  \/ DemoClickOutside
  \/ DebounceTimeout
  \/ SimulatedSearchTimeout
  \/ SearchTick

DemoSpec == DemoInit /\ [][DemoNext]_vars

\* Time passes and timers that are due run their callbacks.
DemoSpecFair ==
  /\ DemoSpec
  /\ WF_vars(SearchTick)
  /\ WF_vars(DebounceTimeout)
  /\ WF_vars(SimulatedSearchTimeout)


\* ------------------------------------------------- claims on SearchInput

\* What the search field shows.
SearchFieldValue ==
  IF searchProps.controlled THEN parentState.value ELSE search.internalValue

\* C22: onSearch is invoked with a typed value only when the input value has
\* stayed unchanged for the full debounce delay, and then with that value; the
\* call of a clear, which passes "" whatever was typed, aside.
C22_SearchOnlyAfterFullDelay ==
  \A i \in 1..Len(called.onSearch) :
     called.onSearch[i] \in search.typedTexts =>
        \/ lastEvent.op \in { "clear", "escape" } /\ called.onSearch[i] = ""
        \/ search.heldFor = DebounceMs /\ called.onSearch[i] = SearchFieldValue

\* C23: every input change fires onChange with the current input value,
\* controlled or not.
C23_ChangeFiresOnChange ==
  lastEvent.op = "change" => called.onChange = << lastEvent.arg >>

\* C28: whenever the recent-searches dropdown is visible, showRecentSearches
\* is true, the input value is empty and between 1 and maxRecentSearches
\* entries are listed.
C28_DropdownOnlyOverEmptyInput ==
  (searchPhase = "mounted" /\ dropdownRendered(World)) =>
      /\ searchProps.showRecentSearches
      /\ SearchFieldValue = ""
      /\ Len(displayedRecentSearches(World)) \in 1..searchProps.maxRecentSearches


\* C27: in the search demo, once the user stops typing, the loading flag is
\* eventually false for good and no timer of the simulated search is pending.
C27_DemoBecomesQuiescent ==
  <>[](~parentState.loading /\ parentState.simTimers = { })

====
